---- MODULE Spec2Model ----
(***************************************************************************)
(* raw2fits.py: conversion of headerless 16-bit RAW dumps to FITS, for one *)
(* file or for every *.raw file under a directory.                         *)
(*                                                                         *)
(* Paths and file names are sequences of one-character strings, file       *)
(* contents are sequences of bytes (0..255), error messages are sequences  *)
(* of text fragments (a formatted path contributes its characters).        *)
(***************************************************************************)
EXTENDS Integers, Sequences, FiniteSets, TLC

(***************************************************************************)
(* Bounds of the model.                                                    *)
(***************************************************************************)
\* at most this many files in the root directory of the tree
MaxFiles == 2
\* width * height of a decoded buffer is at most this
MaxPixels == 4
\* another process shortens a file at most this many times
MaxTruncations == 1

(***************************************************************************)
(* Strings.                                                                *)
(***************************************************************************)
sep == "/"
extsep == "."

Min(a, b) == IF a < b THEN a ELSE b

\* str.lower() on the characters the model uses
lower_char(c) ==
    CASE c = "R" -> "r"
      [] c = "A" -> "a"
      [] c = "W" -> "w"
      [] OTHER -> c

lower(s) == [i \in 1..Len(s) |-> lower_char(s[i])]

endswith(s, suffix) ==
    /\ Len(s) >= Len(suffix)
    /\ SubSeq(s, Len(s) - Len(suffix) + 1, Len(s)) = suffix

\* str.rfind, 1-based: the last index of c in s, 0 when there is none
rfind(s, c) ==
    LET hits == {i \in 1..Len(s) : s[i] = c}
    IN  IF hits = {} THEN 0 ELSE CHOOSE i \in hits : \A j \in hits : j <= i

\* whether needle occurs in s as a contiguous run
Contains(s, needle) ==
    \E i \in 1..(Len(s) - Len(needle) + 1) :
        SubSeq(s, i, i + Len(needle) - 1) = needle

\* os.path.join(dirpath, filename)
join(dirpath, filename) == dirpath \o <<sep>> \o filename

\* os.path.basename(path)
basename(path) == SubSeq(path, rfind(path, sep) + 1, Len(path))

\* os.path.splitext: the extension starts at the last dot of the last
\* component, unless only dots precede it in that component
splitext(p) ==
    LET sepIndex == rfind(p, sep)
        dotIndex == rfind(p, extsep)
    IN  IF /\ dotIndex > sepIndex
           /\ \E k \in (sepIndex + 1)..(dotIndex - 1) : p[k] # extsep
        THEN <<SubSeq(p, 1, dotIndex - 1), SubSeq(p, dotIndex, Len(p))>>
        ELSE <<p, <<>>>>

RawSuffix == <<".", "r", "a", "w">>
FitsSuffix == <<".", "f", "i", "t", "s">>

\* derive_output_path that puts the extension back
derive_output_path_same(input_path) == splitext(input_path)[1] \o splitext(input_path)[2]

derive_output_path(input_path) == splitext(input_path)[1] \o FitsSuffix

\* the filter of the directory loop: filename.lower().endswith('.raw')
is_candidate(filename) == endswith(lower(filename), RawSuffix)

(***************************************************************************)
(* Files. A RAW file is its bytes; a FITS file is what write_fits stored.  *)
(***************************************************************************)
\* a FITS file of a small image: one 2880-byte header block, one data block
FitsFileSize == 5760

RawFile(bytes) == [kind |-> "raw", bytes |-> bytes]

file_size(f) == IF f.kind = "raw" THEN Len(f.bytes) ELSE FitsFileSize

file_bytes(f) ==
    IF f.kind = "raw" THEN f.bytes ELSE [i \in 1..FitsFileSize |-> 32]

(***************************************************************************)
(* Exceptions: the class and the message.                                  *)
(***************************************************************************)
NoError == [type |-> "none", msg |-> <<>>]

OSErrorText(path) ==
    <<"[Errno 2] No such file or directory: '">> \o path \o <<"'">>

\* the message with the two byte counts in each other's place
SizeMismatchMsg_swapped(width, height, actual_bytes) ==
    << "File size mismatch: expected ", ToString(actual_bytes),
       " bytes for ", ToString(width), "x", ToString(height),
       "x16b, but got ", ToString(width * height * 2), " bytes." >>

SizeMismatchMsg(width, height, actual_bytes) ==
    << "File size mismatch: expected ", ToString(width * height * 2),
       " bytes for ", ToString(width), "x", ToString(height),
       "x16b, but got ", ToString(actual_bytes), " bytes." >>

\* validate_file_size that accepts a file longer than expected
validate_file_size_short_only(fs, file_path, width, height) ==
    LET expected_bytes == width * height * 2
    IN  IF file_path \notin DOMAIN fs
        THEN [type |-> "FileNotFoundError",
              msg  |-> <<"Cannot access '">> \o file_path \o <<"': ">>
                       \o OSErrorText(file_path)]
        ELSE IF file_size(fs[file_path]) < expected_bytes
        THEN [type |-> "ValueError",
              msg  |-> SizeMismatchMsg(width, height, file_size(fs[file_path]))]
        ELSE NoError

\* validate_file_size: the exception it raises, NoError when it returns
validate_file_size(fs, file_path, width, height) ==
    LET expected_bytes == width * height * 2
    IN  IF file_path \notin DOMAIN fs
        THEN [type |-> "FileNotFoundError",
              msg  |-> <<"Cannot access '">> \o file_path \o <<"': ">>
                       \o OSErrorText(file_path)]
        ELSE IF file_size(fs[file_path]) # expected_bytes
        THEN [type |-> "ValueError",
              msg  |-> SizeMismatchMsg(width, height, file_size(fs[file_path]))]
        ELSE NoError

(***************************************************************************)
(* Decoding.                                                               *)
(***************************************************************************)
\* an item read as '<u2' whatever the byte order asked for
sample_little_only(b0, b1, byteorder) == b0 + 256 * b1

\* one '<u2' or '>u2' item from its two bytes
sample(b0, b1, byteorder) ==
    IF byteorder = "little" THEN b0 + 256 * b1 ELSE 256 * b0 + b1

\* np.fromfile(file, dtype, count): the whole items available, at most count
fromfile(bytes, byteorder, count) ==
    [i \in 1..Min(count, Len(bytes) \div 2) |->
        sample(bytes[2 * i - 1], bytes[2 * i], byteorder)]

\* the reshape in Fortran order: column after column
reshape_columns(image_1d, height, width) ==
    [r \in 1..height |-> [c \in 1..width |-> image_1d[(c - 1) * height + r]]]

\* ndarray.reshape((height, width)), C order: row after row
reshape(image_1d, height, width) ==
    [r \in 1..height |-> SubSeq(image_1d, (r - 1) * width + 1, r * width)]

\* whether ndarray.reshape((height, width)) accepts an array of n items
reshape_ok(n, height, width) == n = height * width

ReadMsg(got, num_pixels) ==
    << "Read ", ToString(got), " pixels, expected ", ToString(num_pixels),
       ". The file may be truncated or parameters are incorrect." >>

ReshapeMsg(got, height, width) ==
    << "Failed to reshape to (", ToString(height), ", ", ToString(width),
       "): cannot reshape array of size ", ToString(got), " into shape (",
       ToString(height), ",", ToString(width), ")" >>

\* load_raw_image without its check of the number of items read
load_raw_image_unchecked(fs, file_path, width, height, byteorder) ==
    LET num_pixels == width * height
    IN  IF file_path \notin DOMAIN fs
        THEN [err   |-> [type |-> "RuntimeError",
                         msg  |-> <<"Failed to read RAW data: ">>
                                  \o OSErrorText(file_path)],
              image |-> <<>>]
        ELSE LET image_1d == fromfile(file_bytes(fs[file_path]), byteorder, num_pixels)
             IN  IF ~reshape_ok(Len(image_1d), height, width)
                 THEN [err   |-> [type |-> "ValueError",
                                  msg  |-> ReshapeMsg(Len(image_1d), height, width)],
                       image |-> <<>>]
                 ELSE [err |-> NoError, image |-> reshape(image_1d, height, width)]

\* load_raw_image: [err, image]; image is <<>> when an exception is raised
load_raw_image(fs, file_path, width, height, byteorder) ==
    LET num_pixels == width * height
    IN  IF file_path \notin DOMAIN fs
        THEN [err   |-> [type |-> "RuntimeError",
                         msg  |-> <<"Failed to read RAW data: ">>
                                  \o OSErrorText(file_path)],
              image |-> <<>>]
        ELSE LET image_1d == fromfile(file_bytes(fs[file_path]), byteorder, num_pixels)
             IN  IF Len(image_1d) # num_pixels
                 THEN [err   |-> [type |-> "ValueError",
                                  msg  |-> ReadMsg(Len(image_1d), num_pixels)],
                       image |-> <<>>]
                 ELSE IF ~reshape_ok(Len(image_1d), height, width)
                 THEN [err   |-> [type |-> "ValueError",
                                  msg  |-> ReshapeMsg(Len(image_1d), height, width)],
                       image |-> <<>>]
                 ELSE [err |-> NoError, image |-> reshape(image_1d, height, width)]

(***************************************************************************)
(* Writing.                                                                *)
(***************************************************************************)
\* the HDU write_fits builds: the image and the three header cards
FitsFile(image, raw_path, width, height, byteorder) ==
    [kind    |-> "fits",
     data    |-> image,
     comment |-> "Converted from 16-bit RAW (2 bytes/pixel).",
     history |-> <<"Source: ">> \o basename(raw_path)
                 \o <<"; ", ToString(width), "x", ToString(height),
                      "; byteorder=", byteorder>>,
     creator |-> "raw2fits.py"]

WriteErrorMsg(output_path) ==
    <<"Failed to write FITS file '">> \o output_path \o <<"': ">>
    \o <<"[Errno 13] Permission denied: '">> \o output_path \o <<"'">>

\* the file table after hdu.writeto(output_path, overwrite=True)
writeto(fs, output_path, hdu) ==
    [p \in DOMAIN fs \cup {output_path} |->
        IF p = output_path THEN hdu ELSE fs[p]]

\* the directory table after a file is created (or overwritten) at path:
\* a new name is added at the end of its directory's listing
dirname(path) == SubSeq(path, 1, rfind(path, sep) - 1)

add_entry(ds, path) ==
    LET d == dirname(path)
        n == basename(path)
    IN  IF d \in DOMAIN ds /\ \A i \in 1..Len(ds[d].files) : ds[d].files[i] # n
        THEN [ds EXCEPT ![d].files = Append(@, n)]
        ELSE ds

(***************************************************************************)
(* State.                                                                  *)
(***************************************************************************)
VARIABLES
    args,         \* the parsed command line: input, width, height, output, byteorder
    files,        \* filesystem: path -> file
    dirs,         \* filesystem: directory path -> [files, subdirs], in scandir order
    unwritable,   \* filesystem: the paths at which a write is refused
    pc,           \* where main() is
    mode,         \* "dir" or "single", decided by os.path.isdir
    stack,        \* os.walk: the directories still to list
    dirpath,      \* os.walk: the directory being iterated
    filenames,    \* the rest of `for filename in filenames`
    input_path,   \* the file being converted
    output_path,  \* where its FITS goes
    image,        \* the grid load_raw_image returned
    written,      \* result["written"]
    failed,       \* result["failed"]
    ret,          \* main's return value (-1 while running)
    stdout,       \* the lines printed to standard output
    stderr,       \* the lines printed to standard error
    lastErr,      \* the exception the last except clause caught
    fsLog,        \* every filesystem call the program made: <<call, path>>
    discovered,   \* the candidates in the order the loop reached them
    run,          \* which invocation of main this is
    prev,         \* what the previous invocation returned
    envCount,     \* how often another process changed a file
    flat          \* the bytes re-encoded from `image`

vars == << args, files, dirs, unwritable, pc, mode, stack, dirpath, filenames,
           input_path, output_path, image, written, failed, ret, stdout,
           stderr, lastErr, fsLog, discovered, run, prev, envCount, flat >>

fsVars == << files, dirs, unwritable >>

(***************************************************************************)
(* The inputs the model draws from.                                        *)
(***************************************************************************)
Root == <<"d">>
SubName == <<"s", ".", "r", "a", "w">>
SubDir == join(Root, SubName)

NamePool ==
    { <<"a", ".", "r", "a", "w">>,
      <<"a", ".", "R", "A", "W">>,
      <<"a", ".", "f", "i", "t", "s">> }

SubListings == { <<>>, << <<".", "r", "a", "w">> >> }

RawContents == { <<1, 2>>, <<1, 2, 255, 0>> }

\* <<width, height>>
ByteOrders == {"little", "big"}

Geometries == { <<1, 1>>, <<2, 1>>, <<0, 1>>, <<1, -1>> }

SingleInput == join(Root, <<"a", ".", "r", "a", "w">>)
ExplicitOutput == join(Root, <<"o", ".", "f", "i", "t", "s">>)

\* the two ways the optional arguments are given
Options ==
    { [output |-> <<>>, byteorder |-> "little"],
      [output |-> ExplicitOutput, byteorder |-> "big"] }

\* parse_args: the Namespace main works on
CommandLines ==
    { [input |-> i, width |-> g[1], height |-> g[2],
       output |-> o.output, byteorder |-> o.byteorder] :
         i \in {Root, SingleInput}, g \in Geometries, o \in Options }

\* sequences over S without repetition, of length at most n
RECURSIVE Listings(_, _)
Listings(S, n) ==
    IF n = 0 THEN { <<>> }
    ELSE { <<>> } \cup
         UNION { { <<x>> \o l : l \in Listings(S \ {x}, n - 1) } : x \in S }

Range(s) == {s[i] : i \in 1..Len(s)}

\* a tree: the root's listing, the listing of its one subdirectory, and the
\* bytes of every file
TreeDirs(rootList, subList) ==
    [d \in {Root, SubDir} |->
        IF d = Root THEN [files |-> rootList, subdirs |-> <<SubName>>]
                    ELSE [files |-> subList, subdirs |-> <<>>]]

TreePaths(rootList, subList) ==
    {join(Root, n) : n \in Range(rootList)} \cup {join(SubDir, n) : n \in Range(subList)}

NoResult == [written |-> <<>>, failed |-> <<>>, ret |-> -1]

InitProcess ==
    /\ mode = "none"
    /\ stack = <<>>
    /\ dirpath = <<>>
    /\ filenames = <<>>
    /\ input_path = <<>>
    /\ output_path = <<>>
    /\ image = <<>>
    /\ written = <<>>
    /\ failed = <<>>
    /\ ret = -1
    /\ stdout = <<>>
    /\ stderr = <<>>
    /\ lastErr = NoError
    /\ fsLog = <<>>
    /\ discovered = <<>>
    /\ run = 1
    /\ prev = NoResult
    /\ envCount = 0
    /\ flat = <<>>

Init ==
    /\ args \in CommandLines
    /\ \E rootList \in Listings(NamePool, MaxFiles), subList \in SubListings :
          /\ dirs = TreeDirs(rootList, subList)
          /\ files \in [TreePaths(rootList, subList) -> {RawFile(b) : b \in RawContents}]
    /\ unwritable \in { {}, {join(Root, <<"a", ".", "f", "i", "t", "s">>)} }
    /\ pc = "main"
    /\ InitProcess

(***************************************************************************)
(* main().                                                                 *)
(***************************************************************************)
\* the geometry check without the height
geometry_ok_width_only(a) == ~(a.width <= 0)

\* what main requires of width and height
geometry_ok(a) == ~(a.width <= 0 \/ a.height <= 0)

\* os.path.isdir
isdir(ds, path) == path \in DOMAIN ds

\* the status of the comment above the return: 0 with at least one success
dir_status_any_success(w, f) == IF Len(w) > 0 \/ Len(f) = 0 THEN 0 ELSE 1

\* the status main returns in directory mode
dir_status(w, f) == IF Len(f) = 0 THEN 0 ELSE 1

\* the entry the directory loop records for a failed file
failed_entry(path, err) == path \o <<": ">> \o err.msg

\* written.append(output_path), at the front instead
record_written_front(w, path) == <<path>> \o w

\* written.append(output_path)
record_written(w, path) == Append(w, path)

\* the except clause around the inner loop instead of inside it: a failure
\* ends the directory's loop
Except_outside_loop(err) ==
    /\ lastErr' = err
    /\ IF mode = "dir"
       THEN /\ failed' = Append(failed, failed_entry(input_path, err))
            /\ pc' = "walk"
            /\ UNCHANGED <<stderr, ret>>
       ELSE /\ stderr' = Append(stderr, <<"Error: ">> \o err.msg)
            /\ ret' = 1
            /\ pc' = "done"
            /\ UNCHANGED failed

\* the except clauses: the directory loop records the failure and goes on,
\* single-file mode prints it and returns 1
Except(err) ==
    /\ lastErr' = err
    /\ IF mode = "dir"
       THEN /\ failed' = Append(failed, failed_entry(input_path, err))
            /\ pc' = "files"
            /\ UNCHANGED <<stderr, ret>>
       ELSE /\ stderr' = Append(stderr, <<"Error: ">> \o err.msg)
            /\ ret' = 1
            /\ pc' = "done"
            /\ UNCHANGED failed

\* main, up to the choice between directory and single-file mode
Main ==
    /\ pc = "main"
    /\ IF ~geometry_ok(args)
       THEN /\ stderr' = Append(stderr, <<"Error: width and height must be positive integers.">>)
            /\ ret' = 2
            /\ pc' = "done"
            /\ UNCHANGED <<mode, stack, input_path, output_path, fsLog>>
       ELSE /\ fsLog' = Append(fsLog, <<"isdir", args.input>>)
            /\ ret' = ret
            /\ IF isdir(dirs, args.input)
               THEN /\ mode' = "dir"
                    /\ stderr' = IF args.output # <<>>
                                 THEN Append(stderr, <<"Warning: --output is ignored when input is a directory.">>)
                                 ELSE stderr
                    /\ stack' = <<args.input>>
                    /\ pc' = "walk"
                    /\ UNCHANGED <<input_path, output_path>>
               ELSE /\ mode' = "single"
                    /\ input_path' = args.input
                    /\ output_path' = IF args.output # <<>> THEN args.output
                                      ELSE derive_output_path(args.input)
                    /\ pc' = "validate"
                    /\ UNCHANGED <<stack, stderr>>
    /\ UNCHANGED <<args, fsVars, dirpath, filenames, image, written, failed, stdout,
                   lastErr, discovered, run, prev, envCount, flat>>

\* os.walk yields the next directory: its files, then its subdirectories
\* are queued ahead of the directories already waiting
Walk ==
    /\ pc = "walk"
    /\ stack # <<>>
    /\ LET top == Head(stack)
       IN  /\ fsLog' = Append(fsLog, <<"scandir", top>>)
           /\ dirpath' = top
           /\ filenames' = IF top \in DOMAIN dirs THEN dirs[top].files ELSE <<>>
           /\ stack' = (IF top \in DOMAIN dirs
                        THEN [i \in 1..Len(dirs[top].subdirs) |-> join(top, dirs[top].subdirs[i])]
                        ELSE <<>>) \o Tail(stack)
    /\ pc' = "files"
    /\ UNCHANGED <<args, fsVars, mode, input_path, output_path, image, written, failed,
                   ret, stdout, stderr, lastErr, discovered, run, prev, envCount, flat>>

\* the inner loop is over: back to os.walk
EndOfDir ==
    /\ pc = "files"
    /\ filenames = <<>>
    /\ pc' = "walk"
    /\ UNCHANGED <<args, fsVars, mode, stack, dirpath, filenames, input_path, output_path,
                   image, written, failed, ret, stdout, stderr, lastErr, fsLog,
                   discovered, run, prev, envCount, flat>>

\* a file name the filter rejects: continue
SkipFile ==
    /\ pc = "files"
    /\ filenames # <<>>
    /\ ~is_candidate(Head(filenames))
    /\ filenames' = Tail(filenames)
    /\ UNCHANGED <<args, fsVars, pc, mode, stack, dirpath, input_path, output_path,
                   image, written, failed, ret, stdout, stderr, lastErr, fsLog,
                   discovered, run, prev, envCount, flat>>

\* a candidate: its paths are formed and its conversion begins
NextFile ==
    /\ pc = "files"
    /\ filenames # <<>>
    /\ is_candidate(Head(filenames))
    /\ filenames' = Tail(filenames)
    /\ input_path' = join(dirpath, Head(filenames))
    /\ stdout' = Append(stdout, <<"Processing: ">> \o join(dirpath, Head(filenames)))
    /\ output_path' = derive_output_path(join(dirpath, Head(filenames)))
    /\ discovered' = Append(discovered, join(dirpath, Head(filenames)))
    /\ pc' = "validate"
    /\ UNCHANGED <<args, fsVars, mode, stack, dirpath, image, written, failed, ret,
                   stderr, lastErr, fsLog, run, prev, envCount, flat>>

\* validate_file_size(input_path, width, height)
Validate ==
    /\ pc = "validate"
    /\ fsLog' = Append(fsLog, <<"getsize", input_path>>)
    /\ LET err == validate_file_size(files, input_path, args.width, args.height)
       IN  IF err = NoError
           THEN /\ pc' = "load"
                /\ UNCHANGED <<failed, ret, stderr, lastErr>>
           ELSE Except(err)
    /\ UNCHANGED <<args, fsVars, mode, stack, dirpath, filenames, input_path, output_path,
                   image, written, stdout, discovered, run, prev, envCount, flat>>

\* load_raw_image(input_path, width, height, byteorder)
Load ==
    /\ pc = "load"
    /\ fsLog' = Append(fsLog, <<"read", input_path>>)
    /\ LET r == load_raw_image(files, input_path, args.width, args.height, args.byteorder)
       IN  IF r.err = NoError
           THEN /\ image' = r.image
                /\ pc' = "write"
                /\ UNCHANGED <<failed, ret, stderr, lastErr>>
           ELSE /\ Except(r.err)
                /\ UNCHANGED image
    /\ UNCHANGED <<args, fsVars, mode, stack, dirpath, filenames, input_path, output_path,
                   written, stdout, discovered, run, prev, envCount, flat>>

\* write_fits(image, output_path, ...), then the success path of the caller
Write ==
    /\ pc = "write"
    /\ fsLog' = Append(fsLog, <<"write", output_path>>)
    /\ IF output_path \in unwritable
       THEN /\ Except([type |-> "RuntimeError", msg |-> WriteErrorMsg(output_path)])
            /\ UNCHANGED <<files, dirs, written, stdout>>
       ELSE /\ files' = writeto(files, output_path,
                                FitsFile(image, input_path, args.width, args.height, args.byteorder))
            /\ dirs' = add_entry(dirs, output_path)
            /\ lastErr' = lastErr
            /\ IF mode = "dir"
               THEN /\ written' = record_written(written, output_path)
                    /\ pc' = "files"
                    /\ UNCHANGED <<failed, ret, stdout, stderr>>
               ELSE /\ stdout' = Append(stdout, <<"Wrote FITS: ">> \o output_path)
                    /\ ret' = 0
                    /\ pc' = "done"
                    /\ UNCHANGED <<written, failed, stderr>>
    /\ UNCHANGED <<args, unwritable, mode, stack, dirpath, filenames, input_path, output_path,
                   image, discovered, run, prev, envCount, flat>>

\* os.walk is exhausted: the summary, the failures, the status
Summary ==
    /\ pc = "walk"
    /\ stack = <<>>
    /\ stdout' = Append(stdout, <<"Converted ", ToString(Len(written)), " files. Failures: ",
                                  ToString(Len(failed)), ".">>)
    /\ stderr' = stderr \o [i \in 1..Len(failed) |-> <<"Failed: ">> \o failed[i]]
    /\ ret' = dir_status(written, failed)
    /\ pc' = "done"
    /\ UNCHANGED <<args, fsVars, mode, stack, dirpath, filenames, input_path, output_path,
                   image, written, failed, lastErr, fsLog, discovered, run, prev,
                   envCount, flat>>

\* the program is started again with the same command line
Rerun ==
    /\ pc = "done"
    /\ run = 1
    /\ run' = run + 1
    /\ prev' = [written |-> written, failed |-> failed, ret |-> ret]
    /\ pc' = "main"
    /\ mode' = "none"
    /\ stack' = <<>>
    /\ dirpath' = <<>>
    /\ filenames' = <<>>
    /\ input_path' = <<>>
    /\ output_path' = <<>>
    /\ image' = <<>>
    /\ written' = <<>>
    /\ failed' = <<>>
    /\ ret' = -1
    /\ stdout' = <<>>
    /\ stderr' = <<>>
    /\ lastErr' = NoError
    /\ discovered' = <<>>
    /\ UNCHANGED <<args, fsVars, fsLog, envCount, flat>>

\* another process shortens the file between the size check and the read
Truncate ==
    /\ pc = "load"
    /\ envCount < MaxTruncations
    /\ input_path \in DOMAIN files
    /\ files[input_path].kind = "raw"
    /\ \E n \in 0..(Len(files[input_path].bytes) - 1) :
          files' = [files EXCEPT ![input_path] = RawFile(SubSeq(@.bytes, 1, n))]
    /\ envCount' = envCount + 1
    /\ UNCHANGED <<args, dirs, unwritable, pc, mode, stack, dirpath, filenames, input_path,
                   output_path, image, written, failed, ret, stdout, stderr, lastErr,
                   fsLog, discovered, run, prev, flat>>

Next ==
    \/ Main
    \/ Walk
    \/ EndOfDir
    \/ SkipFile
    \/ NextFile
    \/ Validate
    \/ Load
    \/ Write
    \/ Summary
    \/ Rerun
    \/ Truncate

Spec == Init /\ [][Next]_vars

(***************************************************************************)
(* The decoder alone: load_raw_image on every buffer of the exact size     *)
(* for its geometry, then the grid written back to bytes.                  *)
(***************************************************************************)
ByteVals == {1, 2, 255}

\* the sequences over S of length n
RECURSIVE Buffers(_, _)
Buffers(S, n) ==
    IF n = 0 THEN { <<>> }
    ELSE { <<x>> \o b : x \in S, b \in Buffers(S, n - 1) }

\* the two bytes of one sample in the given byte order
sample_bytes(v, byteorder) ==
    IF byteorder = "little" THEN <<v % 256, v \div 256>> ELSE <<v \div 256, v % 256>>

\* the grid row by row, each sample as its two bytes
RECURSIVE row_bytes(_, _)
row_bytes(row, byteorder) ==
    IF row = <<>> THEN <<>>
    ELSE sample_bytes(Head(row), byteorder) \o row_bytes(Tail(row), byteorder)

RECURSIVE tobytes(_, _)
tobytes(grid, byteorder) ==
    IF grid = <<>> THEN <<>>
    ELSE row_bytes(Head(grid), byteorder) \o tobytes(Tail(grid), byteorder)

InitDecode ==
    /\ \E w \in 1..MaxPixels, h \in 1..MaxPixels, bo \in ByteOrders :
          /\ w * h <= MaxPixels
          /\ args = [input |-> SingleInput, width |-> w, height |-> h,
                     output |-> <<>>, byteorder |-> bo]
          /\ \E b \in Buffers(ByteVals, w * h * 2) :
                files = [q \in {SingleInput} |-> RawFile(b)]
    /\ dirs = TreeDirs(<< <<"a", ".", "r", "a", "w">> >>, <<>>)
    /\ unwritable = {}
    /\ pc = "decode"
    /\ InitProcess

\* image = load_raw_image(input, width, height, byteorder)
Decode ==
    /\ pc = "decode"
    /\ LET r == load_raw_image(files, args.input, args.width, args.height, args.byteorder)
       IN  /\ image' = r.image
           /\ lastErr' = r.err
    /\ pc' = "flatten"
    /\ UNCHANGED <<args, fsVars, mode, stack, dirpath, filenames, input_path, output_path,
                   written, failed, ret, stdout, stderr, fsLog, discovered, run, prev,
                   envCount, flat>>

\* the grid is written back to bytes in the same byte order
Flatten ==
    /\ pc = "flatten"
    /\ flat' = tobytes(image, args.byteorder)
    /\ pc' = "flattened"
    /\ UNCHANGED <<args, fsVars, mode, stack, dirpath, filenames, input_path, output_path,
                   image, written, failed, ret, stdout, stderr, lastErr, fsLog,
                   discovered, run, prev, envCount>>

NextDecode ==
    \/ Decode
    \/ Flatten

DecodeSpec == InitDecode /\ [][NextDecode]_vars

(***************************************************************************)
(* The decoder's properties, under DecodeSpec.                             *)
(***************************************************************************)
Decoded == pc \in {"flatten", "flattened"}

\* the bytes of the file load_raw_image was given
buffer == files[args.input].bytes

\* C5: for every valid width and height and every file of exactly
\* width*height*2 bytes, load_raw_image returns height rows of width columns,
\* and the element at row r, column c (from 0) is the sample of flat index
\* i = r*width + c, built from b0 = file[2i], b1 = file[2i+1] as b0 + 256*b1
\* under 'little' and as 256*b0 + b1 under 'big'.
C5_GridLayout ==
    Decoded =>
        /\ lastErr = NoError
        /\ Len(image) = args.height
        /\ \A r \in 0..(args.height - 1) :
              /\ Len(image[r + 1]) = args.width
              /\ \A c \in 0..(args.width - 1) :
                    LET i  == r * args.width + c
                        b0 == buffer[2 * i + 1]
                        b1 == buffer[2 * i + 2]
                    IN  /\ i \div args.width = r
                        /\ i % args.width = c
                        /\ image[r + 1][c + 1] =
                              (IF args.byteorder = "little" THEN b0 + 256 * b1
                                                            ELSE 256 * b0 + b1)

\* a 2x2 big-endian buffer decoded: [0x01, 0x02] gives 0x0102, and the third
\* sample begins the second row
C5_Witness ==
    /\ Decoded
    /\ args.width = 2 /\ args.height = 2 /\ args.byteorder = "big"
    /\ buffer = <<1, 2, 2, 1, 255, 1, 2, 255>>
    /\ image = << <<258, 513>>, <<65281, 767>> >>

\* C6: decoding a buffer of exactly width*height*2 bytes and writing the
\* grid back row by row in the same byte order gives the buffer again.
C6_RoundTrip ==
    pc = "flattened" => flat = buffer

\* a 2x2 big-endian buffer has gone through both steps
C6_Witness ==
    /\ pc = "flattened"
    /\ args.width = 2 /\ args.height = 2 /\ args.byteorder = "big"
    /\ image = << <<258, 513>>, <<65281, 767>> >>
    /\ flat = <<1, 2, 2, 1, 255, 1, 2, 255>>

C4_InvalidGeometryFirst ==
    (args.width <= 0 \/ args.height <= 0) =>
        /\ fsLog = <<>>
        /\ pc \in {"main", "done"}
        /\ pc = "done" => ret = 2

\* a directory given with a negative height was rejected, twice
C4_Witness ==
    /\ args.input = Root /\ args.height < 0
    /\ isdir(dirs, args.input)
    /\ run = 2 /\ pc = "done" /\ ret = 2
    /\ fsLog = <<>>

(***************************************************************************)
(* What a conversion does with one file.                                   *)
(***************************************************************************)
Expected == args.width * args.height * 2

Last(q) == q[Len(q)]

StartsWith(q, prefix) ==
    Len(q) >= Len(prefix) /\ SubSeq(q, 1, Len(prefix)) = prefix

\* validate_file_size is about to run on a file of the wrong length
AtMismatch ==
    /\ pc = "validate"
    /\ input_path \in DOMAIN files
    /\ file_size(files[input_path]) # Expected

\* validate_file_size is about to run on a path that does not exist
AtMissing ==
    /\ pc = "validate"
    /\ input_path \notin DOMAIN files

\* the paths of the "read" calls the program made
ReadPaths == {fsLog[i][2] : i \in {j \in 1..Len(fsLog) : fsLog[j][1] = "read"}}

\* C2: a file whose byte length differs from width*height*2 fails with the
\* size-mismatch error and its samples are never read: the step after the
\* size check is not load_raw_image (nor write_fits), in both modes, and the
\* only filesystem call made for the file is the size query. Without a
\* concurrent change, every file that was read has the expected length.
C2_NoReadOnMismatch ==
    [][ /\ AtMismatch =>
            /\ pc' \notin {"load", "write"}
            /\ fsLog' = Append(fsLog, <<"getsize", input_path>>)
            /\ lastErr'.type = "ValueError"
            /\ lastErr'.msg[1] = "File size mismatch: expected "
            /\ image' = image
            /\ files' = files
            /\ mode = "dir" =>
                  /\ pc' = "files"
                  /\ Len(failed') = Len(failed) + 1
                  /\ written' = written
            /\ mode = "single" => (pc' = "done" /\ ret' = 1)
        /\ envCount = 0 =>
              \A q \in ReadPaths : file_size(files[q]) = Expected
      ]_vars

\* the directory loop has just recorded a size mismatch for a file it
\* never read
C2_Witness ==
    /\ mode = "dir" /\ pc = "files"
    /\ lastErr.type = "ValueError"
    /\ lastErr.msg[1] = "File size mismatch: expected "
    /\ input_path \in DOMAIN files
    /\ file_size(files[input_path]) # Expected
    /\ input_path \notin ReadPaths
    /\ ReadPaths # {}
    /\ envCount = 0

AtShort ==
    /\ pc = "load"
    /\ input_path \in DOMAIN files
    /\ Len(file_bytes(files[input_path])) \div 2 < args.width * args.height

\* C9: when the file was shortened after validate_file_size passed, so that
\* fewer than width*height samples can be read, the conversion of the file
\* fails with the error that reports the pixels obtained and the pixels
\* expected; no grid is returned, write_fits is not called for the file, and
\* whenever write_fits is called the grid has height rows of width samples.
C9_TruncatedRead ==
    [][ /\ (AtShort /\ pc' # "load") =>
            /\ pc' # "write"
            /\ image' = image
            /\ files' = files
            /\ lastErr'.type = "ValueError"
            /\ lastErr'.msg =
                  << "Read ", ToString(Len(file_bytes(files[input_path])) \div 2),
                     " pixels, expected ", ToString(args.width * args.height),
                     ". The file may be truncated or parameters are incorrect." >>
            /\ mode = "dir" =>
                  /\ Last(failed') = input_path \o <<": ">> \o lastErr'.msg
                  /\ written' = written
                  /\ pc' = "files"
            /\ mode = "single" => (pc' = "done" /\ ret' = 1)
        /\ pc = "write" =>
            /\ Len(image) = args.height
            /\ \A r \in 1..args.height : Len(image[r]) = args.width
      ]_vars

\* a 4-byte file given as 2x1 was cut to 3 bytes after the size check: one
\* pixel read, two expected, and the directory loop recorded the failure
C9_Witness ==
    /\ mode = "dir" /\ pc = "files"
    /\ envCount = 1
    /\ Len(files[input_path].bytes) = 3
    /\ lastErr.msg[1] = "Read " /\ lastErr.msg[2] = "1" /\ lastErr.msg[4] = "2"
    /\ StartsWith(Last(failed), input_path \o <<": ", "Read ">>)
    /\ <<"write", output_path>> \notin {fsLog[i] : i \in 1..Len(fsLog)}

(***************************************************************************)
(* The directory tree as os.walk sees it.                                  *)
(***************************************************************************)
\* the directories of the tree under top, top included
RECURSIVE all_dirs(_, _)
all_dirs(ds, top) ==
    IF top \notin DOMAIN ds THEN {}
    ELSE {top} \cup UNION { all_dirs(ds, join(top, ds[top].subdirs[i])) :
                              i \in 1..Len(ds[top].subdirs) }

\* the candidate files of the tree under top
Candidates(ds, top) ==
    UNION { { join(d, ds[d].files[i]) :
                i \in {j \in 1..Len(ds[d].files) : is_candidate(ds[d].files[j])} } :
            d \in all_dirs(ds, top) }

\* the candidates in the order os.walk (top-down) yields them: a
\* directory's own files in scandir order, then its subdirectories in turn
RECURSIVE walk_order(_, _)
RECURSIVE walk_subdirs(_, _, _)
walk_order(ds, top) ==
    IF top \notin DOMAIN ds THEN <<>>
    ELSE LET own == SelectSeq(ds[top].files, is_candidate)
         IN  [i \in 1..Len(own) |-> join(top, own[i])]
             \o walk_subdirs(ds, top, ds[top].subdirs)

walk_subdirs(ds, top, subs) ==
    IF subs = <<>> THEN <<>>
    ELSE walk_order(ds, join(top, Head(subs))) \o walk_subdirs(ds, top, Tail(subs))

(***************************************************************************)
(* The batch's properties, under Spec.                                     *)
(***************************************************************************)
BatchDone == pc = "done" /\ mode = "dir"

\* how many entries of `failed` are about the candidate path p
FailCount(p) ==
    Cardinality({j \in 1..Len(failed) : StartsWith(failed[j], p \o <<": ">>)})

\* how often the program asked for the size of p
SizeQueries(p) ==
    Cardinality({j \in 1..Len(fsLog) : fsLog[j] = <<"getsize", p>>})

\* C1: whatever the tree and whichever files fail, the loop runs to the
\* end: every candidate is attempted exactly once (in each run), each
\* contributes one entry to exactly one of `written` and `failed`, and
\* len(written) + len(failed) is the number of candidates.
C1_EveryCandidateOnce ==
    BatchDone =>
        LET cands == Candidates(dirs, args.input)
        IN  /\ stack = <<>> /\ filenames = <<>>
            /\ {discovered[i] : i \in 1..Len(discovered)} = cands
            /\ Len(discovered) = Cardinality(cands)
            /\ \A p \in cands : SizeQueries(p) = run
            /\ Len(written) + Len(failed) = Cardinality(cands)
            /\ \A p \in cands : FailCount(p) <= 1
            /\ \A j \in 1..Len(failed) : \E p \in cands : StartsWith(failed[j], p \o <<": ">>)
            /\ \A j \in 1..Len(written) :
                  Cardinality({k \in 1..Len(written) : written[k] = written[j]})
                  = Cardinality({p \in cands : /\ derive_output_path(p) = written[j]
                                              /\ FailCount(p) = 0})

\* a batch of three candidates in which the first one failed and a later
\* one was converted
C1_Witness ==
    /\ BatchDone
    /\ Len(discovered) = 3
    /\ Len(failed) = 2 /\ Len(written) = 1
    /\ StartsWith(failed[1], discovered[1] \o <<": ">>)
    /\ written[1] = derive_output_path(discovered[3])

\* the paths of the size queries, in the order they were made
SizeQueryPaths ==
    LET q == SelectSeq(fsLog, LAMBDA e : e[1] = "getsize")
    IN  [i \in 1..Len(q) |-> q[i][2]]

\* the entries of q at the indices i with keep[i], in order
RECURSIVE Pick(_, _, _)
Pick(q, keep, i) ==
    IF i > Len(q) THEN <<>>
    ELSE (IF keep[i] THEN <<q[i]>> ELSE <<>>) \o Pick(q, keep, i + 1)

\* C7: `written` and `failed` are in discovery order. The candidates are
\* taken one at a time in the order os.walk yields them, `written` holds the
\* output paths of one subsequence of that order and `failed` the entries of
\* the complementary subsequence, and a second run over a filesystem nobody
\* else changed returns the same two lists.
C7_DiscoveryOrder ==
    BatchDone =>
        /\ discovered = walk_order(dirs, args.input)
        /\ SizeQueryPaths = (IF run = 1 THEN discovered ELSE discovered \o discovered)
        /\ \E ok \in [1..Len(discovered) -> BOOLEAN] :
              LET good == Pick(discovered, ok, 1)
                  bad  == Pick(discovered, [i \in 1..Len(discovered) |-> ~ok[i]], 1)
              IN  /\ written = [i \in 1..Len(good) |-> derive_output_path(good[i])]
                  /\ Len(failed) = Len(bad)
                  /\ \A i \in 1..Len(bad) : StartsWith(failed[i], bad[i] \o <<": ">>)
        /\ (run = 2 /\ envCount = 0) =>
              /\ written = prev.written
              /\ failed = prev.failed
              /\ ret = prev.ret

\* the second run of a batch that converts two files to different outputs
\* and fails on one has ended with the lists of the first run
C7_Witness ==
    /\ BatchDone
    /\ run = 2 /\ envCount = 0
    /\ Len(written) = 2 /\ written[1] # written[2]
    /\ Len(failed) = 1
    /\ written = prev.written /\ failed = prev.failed

\* a conversion of the directory loop is under way
InBatch == mode = "dir" /\ pc \in {"validate", "load", "write"}

\* the '.raw' the filter matched, cut off the end of the path
WithoutRawSuffix(p) == SubSeq(p, 1, Len(p) - Len(RawSuffix))

\* a name that is dots and then 'raw' ('.raw', '..raw'): no extension for
\* os.path.splitext
OnlyDotsBeforeRaw(name) ==
    \A k \in 1..(Len(name) - Len(RawSuffix)) : name[k] = extsep

\* what the batch leaves alone: in a step of the program in directory mode
\* no candidate's content changes and the set of candidates stays the same
BatchFrame ==
    (mode = "dir" /\ envCount' = envCount) =>
        /\ \A p \in Candidates(dirs, Root) :
              p \in DOMAIN files => (p \in DOMAIN files' /\ files'[p] = files[p])
        /\ Candidates(dirs', Root) = Candidates(dirs, Root)

====
